---- MODULE Spec2Model ----
(***************************************************************************)
(* Cycle-level model of the synchronous circuits of cl.py: the UART byte   *)
(* transmitter, the RGMII receiver and transmitter framers, the            *)
(* memory-to-parallel dumper, the memory ports that connect them, and the  *)
(* wiring of Top: the trigger counter of the transmitter and the receiver  *)
(* feeding the dumper across the rxc and sync clock domains.               *)
(*                                                                         *)
(* Every circuit is advanced one clock edge per step.  A variable holding  *)
(* an input signal carries the value the signal has during the current     *)
(* cycle; a clock step computes every register from the current values     *)
(* (nmigen's m.d.sync) and then lets the environment choose the inputs of  *)
(* the next cycle.  Combinational signals (m.d.comb) are operators over    *)
(* the current state.  One-bit signals are 0 or 1.                         *)
(***************************************************************************)
EXTENDS Integers, Sequences, FiniteSets, TLC

\* ---------------------------------------------------------------- bounds
\* Largest UART data width explored (UART(..., n=...)).
MaxN == 2
\* Largest UART divider explored (UART(..., divider=...)).
MaxDivider == 3
\* Address width of the memories explored (depth 2^AddrBits; Top uses 2048).
AddrBits == 2
\* Data bytes on the buses and in the memories are drawn from 0..MaxByte.
MaxByte == 1
\* Longest run of consecutive rx-valid cycles the environment presents.
MaxFrame == 5

\* Longest initial contents (init=...) given to a preloaded memory; the
\* words after them are zero.
MaxInit == 3
\* Largest frame length presented on RGMIITx's length input.
MaxLen == 5

\* Largest frame length presented on Mem2Parallel's length input.
MaxDump == 3
\* Largest Mem2Parallel divider explored (Mem2Parallel(..., div=...)).
MaxDiv == 3

\* Longest run of consecutive rx-valid cycles presented to Top's receiver.
MaxTopFrame == 2

\* ------------------------------------------------------ program constants
\* Width of RGMIIRx's counter n and of its length output self.n.
RxNWidth == 11
\* Width of RGMIITx's length input self.n and of its register n.
TxNWidth == 11

\* Width of Top's trigger counter (ctr = nm.Signal(5)).
TopCtrWidth == 5
\* Counter value at which Top asserts the transmitter's start trigger.
TopTrigger == 16
\* Divider of Top's Mem2Parallel.
TopDiv == 2

\* ------------------------------------------------------------- variables
VARIABLES
    \* UART: constructor arguments, input, registers
    uart_n, uart_divider, uart_data, valid, tx_reg, tx_cnt, tx_div,
    \* UART observer: position inside the frame of the last accepted send
    uart_t,
    \* RGMIIRx: inputs, FSM state, counter n, outputs self.dv and self.n
    rxd, rxctl, rx_fsm, rx_n, rx_dv, rx_len,
    \* capture memory and its write port's registered address and data
    rxmem, wp_addr, wp_data,
    \* RGMIIRx observers: bytes presented with rx-valid high in the frame
    \* being captured or just reported, write-enabled clock edges of that
    \* frame, whether rx-valid was high in any earlier cycle
    rx_presented, rx_writes, rx_ever,
    \* RGMIITx: inputs self.dv and self.n, FSM state, registers n and txen
    tx_dv, tx_nin, tx_fsm, tx_n, txen,
    \* replay memory and its read port's address and data registers
    txmem, tx_rp_addr, tx_rp_data,
    \* RGMIITx observers: bytes seen on txd in the cycles with tx-enable
    \* high since the last accepted trigger, the length input at that
    \* trigger, whether the cycle before the trigger was IDLE with start
    \* low, whether the cycle before the current one was
    tx_seen, tx_req, tx_clean, tx_quiet,
    \* Mem2Parallel: constructor argument div, inputs self.dv and self.n,
    \* FSM state, registers n, ctr, self.o and self.clk
    m2p_div, m2p_dv, m2p_nin, m2p_fsm, m2p_n, m2p_ctr, m2p_o, m2p_clk,
    \* its read port (on the capture memory): address and data registers
    m2p_rp_addr, m2p_rp_data,
    \* Mem2Parallel observers: the length input at the last accepted
    \* trigger, rising edges of clk since then, cycles since the last
    \* rising edge, cycles between the last two rising edges, whether the
    \* read address was 0 in the cycle of that trigger
    m2p_req, m2p_edges, m2p_since, m2p_gap, m2p_clean,
    \* Top: the 5-bit counter that paces the transmitter's start trigger
    top_ctr,
    \* Top observers of the runs in which the two clocks tick together (at
    \* their reset values once they have not): cycles since the last cycle
    \* with the start trigger asserted (0: none yet), the bytes of the
    \* captured frame whose dump was triggered last, whether the last
    \* capture ended with the dumper in IDLE and rx-valid has been low since
    top_last, top_frame, top_ok,
    \* accepted dump triggers since the current or last frame-available
    \* pulse was raised (counted up to 2)
    top_taken,
    \* consecutive cycles, up to the current one and not counting it, in
    \* which the transmitter was in IDLE (counted up to TopTrigger + 1),
    \* while the two clocks tick together
    top_idle,
    \* whether every clock edge so far was an edge of both of Top's clocks
    top_lock

uartVars == <<uart_n, uart_divider, uart_data, valid, tx_reg, tx_cnt, tx_div, uart_t>>

rxVars == <<rxd, rxctl, rx_fsm, rx_n, rx_dv, rx_len, rxmem, wp_addr, wp_data,
            rx_presented, rx_writes, rx_ever>>

txVars == <<tx_dv, tx_nin, tx_fsm, tx_n, txen, txmem, tx_rp_addr, tx_rp_data,
            tx_seen, tx_req, tx_clean, tx_quiet>>

m2pVars == <<m2p_div, m2p_dv, m2p_nin, m2p_fsm, m2p_n, m2p_ctr, m2p_o, m2p_clk,
             m2p_rp_addr, m2p_rp_data, m2p_req, m2p_edges, m2p_since, m2p_gap,
             m2p_clean>>

topVars == <<top_ctr, top_last, top_frame, top_ok, top_taken, top_idle,
            top_lock>>

\* The transmitter's length input, registers, memory and observers (all but
\* its start input).
txRegs == <<tx_nin, tx_fsm, tx_n, txen, txmem, tx_rp_addr, tx_rp_data,
            tx_seen, tx_req, tx_clean, tx_quiet>>

\* The dumper's registers and observers (all but its two inputs).
m2pRegs == <<m2p_div, m2p_fsm, m2p_n, m2p_ctr, m2p_o, m2p_clk, m2p_rp_addr,
             m2p_rp_data, m2p_req, m2p_edges, m2p_since, m2p_gap, m2p_clean>>

vars == <<uartVars, rxVars, txVars, m2pVars, topVars>>

\* ------------------------------------------------------------ bit vectors
Bit01 == {0, 1}

\* v[i] of a Signal holding v
Bit(v, i) == (v \div (2 ^ i)) % 2

\* Values of the 8-bit data buses and memory words that are explored.
ByteVals == 0..MaxByte

\* Depth of a memory whose ports have `bits` address bits.
Depth(bits) == 2 ^ bits

\* nm.Memory(width=8, depth=..., init=...): the initial words, zero after
\* the end of init.
MemInit(init, bits) ==
    [a \in 0..(Depth(bits) - 1) |-> IF a < Len(init) THEN init[a + 1] ELSE 0]

\* The initial contents explored for a preloaded memory.
Payloads == UNION {[1..k -> ByteVals] : k \in 0..MaxInit}

\* Memory write port: on a clock edge with en asserted the word at the
\* port's address takes the port's data.
MemWrite(mem, en, addr, data) ==
    IF en = 1 THEN [mem EXCEPT ![addr] = data] ELSE mem

\* Memory read port (transparent=False, en at its reset value 1): after a
\* clock edge the data register holds the word at the address the port
\* had before the edge.
MemRead(mem, addr) == mem[addr]

\* ========================================================== reset states
\* Reset values of the UART's registers.
UartRegsReset ==
    /\ tx_reg = 1
    /\ tx_cnt = 0
    /\ tx_div = 0
    /\ uart_t = 0

\* A UART that is not clocked: one fixed configuration, in reset.
UartReset ==
    /\ uart_n = 1
    /\ uart_divider = 1
    /\ uart_data = 0
    /\ valid = 0
    /\ UartRegsReset

\* Reset values of the receiver's registers and of its write port, and
\* the observers.
RxRegsOff ==
    /\ rx_fsm = "IDLE"
    /\ rx_n = 0
    /\ rx_dv = 0
    /\ rx_len = 0
    /\ wp_addr = 0
    /\ wp_data = 0
    /\ rx_presented = << >>
    /\ rx_writes = 0
    /\ rx_ever = 0

\* The receiver in reset with the capture memory as Top builds it
\* (nm.Memory without init holds zeros).
RxRegsReset ==
    /\ RxRegsOff
    /\ rxmem = MemInit(<< >>, AddrBits)

\* A receiver that is not clocked, its inputs low.
RxReset ==
    /\ rxd = 0
    /\ rxctl = 0
    /\ RxRegsReset

\* Reset values of the transmitter's registers and of its read port, and
\* the observers.
TxRegsReset ==
    /\ tx_fsm = "IDLE"
    /\ tx_n = 0
    /\ txen = 0
    /\ tx_rp_addr = 0
    /\ tx_rp_data = 0
    /\ tx_seen = << >>
    /\ tx_req = 0
    /\ tx_clean = 0
    /\ tx_quiet = 0

\* A transmitter that is not clocked, its inputs low, its memory zero.
TxReset ==
    /\ tx_dv = 0
    /\ tx_nin = 0
    /\ txmem = MemInit(<< >>, AddrBits)
    /\ TxRegsReset

\* Reset values of the dumper's registers and of its read port's address,
\* and the observers (no rising edge yet: the cycle counts are saturated).
M2PRegsOff ==
    /\ m2p_fsm = "IDLE"
    /\ m2p_n = 0
    /\ m2p_ctr = 0
    /\ m2p_o = 0
    /\ m2p_clk = 0
    /\ m2p_rp_addr = 0
    /\ m2p_req = 0
    /\ m2p_edges = 0
    /\ m2p_since = m2p_div + 1
    /\ m2p_gap = m2p_div + 1
    /\ m2p_clean = 0

\* The dumper in reset behind a read port built with transparent=False, as
\* Top builds rx_rp: the port's data register resets to 0.
M2PRegsReset ==
    /\ M2PRegsOff
    /\ m2p_rp_data = 0

\* A dumper that is not clocked, its inputs low (div as Top builds it).
M2PReset ==
    /\ m2p_div = 2
    /\ m2p_dv = 0
    /\ m2p_nin = 0
    /\ M2PRegsReset

\* Reset value of Top's trigger counter, and the observers.
TopReset ==
    /\ top_ctr = 0
    /\ top_last = 0
    /\ top_frame = << >>
    /\ top_ok = 0
    /\ top_taken = 0
    /\ top_idle = 0
    /\ top_lock = 1

\* ================================================================== UART
\* nm.Cat(0, self.data, 1): start bit in bit 0, data in bits 1..n, stop bit
\* in bit n+1.
UartLoad(data, n) == 0 + 2 * data + 2 ^ (n + 1)

UartShiftZero(reg, n) == reg \div 2

\* Variant: the 1 shifted into bit n instead of bit n+1.
UartShiftShort(reg, n) == ((reg \div 2) % (2 ^ n)) + 2 ^ n

\* nm.Cat(tx_reg[1:], 1): shift right by one, shifting a 1 into bit n+1.
UartShift(reg, n) == (reg \div 2) + 2 ^ (n + 1)

\* self.tx_o = tx_reg[0] (combinational)
TxO == Bit(tx_reg, 0)

\* The registers after one clock edge, from the registers and the input
\* `v` (self.valid) of the current cycle.
UartNextAcceptAlways(reg, cnt, div, v, data, n, k) ==
    IF v = 1
    THEN [reg |-> UartLoad(data, n), cnt |-> n + 2, div |-> k - 1]
    ELSE IF cnt = 0
    THEN [reg |-> reg, cnt |-> cnt, div |-> div]
    ELSE IF div # 0
    THEN [reg |-> reg, cnt |-> cnt, div |-> div - 1]
    ELSE [reg |-> UartShift(reg, n), cnt |-> cnt - 1, div |-> k - 1]

UartNext(reg, cnt, div, v, data, n, k) ==
    IF cnt = 0
    THEN \* Idle
         IF v = 1
         THEN [reg |-> UartLoad(data, n), cnt |-> n + 2, div |-> k - 1]
         ELSE [reg |-> reg, cnt |-> cnt, div |-> div]
    ELSE \* Transmitting
         IF div # 0
         THEN \* Wait for clock divider
              [reg |-> reg, cnt |-> cnt, div |-> div - 1]
         ELSE \* Update output state
              [reg |-> UartShift(reg, n), cnt |-> cnt - 1, div |-> k - 1]

\* Observer of the serial line: 0 when no frame is in progress, else the
\* number of the current cycle inside the (n+2)*k cycles that follow an
\* accepted send.
UartObserve(t, v, n, k) ==
    IF t = 0 THEN (IF v = 1 THEN 1 ELSE 0)
    ELSE IF t = (n + 2) * k THEN 0
    ELSE t + 1

\* Reset state: tx_reg resets to 1, tx_cnt and tx_div to 0.  self.data is
\* nm.Const(data, n), so it is a value of n bits.
UartInit ==
    /\ TopReset
    /\ RxReset
    /\ TxReset
    /\ M2PReset
    /\ uart_n \in 1..MaxN
    /\ uart_divider \in 1..MaxDivider
    /\ uart_data \in 0..(2 ^ uart_n - 1)
    /\ valid \in Bit01
    /\ UartRegsReset

UartClock ==
    LET nx == UartNext(tx_reg, tx_cnt, tx_div, valid,
                       uart_data, uart_n, uart_divider)
    IN  /\ tx_reg' = nx.reg
        /\ tx_cnt' = nx.cnt
        /\ tx_div' = nx.div
        /\ uart_t' = UartObserve(uart_t, valid, uart_n, uart_divider)
        /\ valid' \in Bit01
        /\ UNCHANGED <<uart_n, uart_divider, uart_data>>
        /\ UNCHANGED <<rxVars, txVars, m2pVars, topVars>>

\* A clock edge with the transmitter idle (tx_cnt == 0).
UartIdle == tx_cnt = 0 /\ UartClock

\* A clock edge with a frame in progress (tx_cnt != 0).
UartTransmit == tx_cnt # 0 /\ UartClock

UartStep == UartIdle \/ UartTransmit

SpecUART == UartInit /\ [][UartStep]_vars

\* ---------------------------------------------------------- UART claims
\* The level the line must have in cycle t (1..(n+2)*k) of a frame.
ExpectedLine(b, n, k, t) ==
    LET slot == (t - 1) \div k
    IN  IF slot = 0 THEN 0
        ELSE IF slot = n + 1 THEN 1
        ELSE Bit(b, slot - 1)

\* C1: after a send accepted while idle, the line is 0 for k cycles, then
\* bit i of the byte (least-significant first) for k cycles each, then 1 for
\* k cycles; during these (n+2)*k cycles the bit counter is nonzero, and
\* after them it is 0 again and the line is 1 until the next accepted send.
UartFraming ==
    /\ uart_t = 0 => (tx_cnt = 0 /\ TxO = 1)
    /\ uart_t > 0 =>
         /\ tx_cnt # 0
         /\ TxO = ExpectedLine(uart_data, uart_n, uart_divider, uart_t)

\* The last cycle of the stop bit of a frame carrying a byte with both bit
\* values, at a divider that holds each bit for more than one cycle.
UartFramingWitness ==
    /\ uart_t = (uart_n + 2) * uart_divider
    /\ uart_divider >= 2
    /\ uart_n >= 2
    /\ uart_data = 2

\* C9: a send pulse in a cycle where the bit counter is nonzero leaves the
\* shift register, bit counter and divider counter exactly as they would be
\* without it, and a frame starts only in a cycle where send is asserted
\* with the bit counter at 0 (a dropped request is never sent later).
UartBusyDrop ==
    [][ /\ (tx_cnt # 0 /\ valid = 1) =>
             [reg |-> tx_reg', cnt |-> tx_cnt', div |-> tx_div']
               = UartNext(tx_reg, tx_cnt, tx_div, 0,
                          uart_data, uart_n, uart_divider)
        /\ (tx_cnt = 0 /\ tx_cnt' # 0) => valid = 1
        /\ (uart_t # 0 /\ valid = 1) =>
             uart_t' = UartObserve(uart_t, 0, uart_n, uart_divider)
      ]_vars

\* A send pulse arrives in the middle of a frame.
UartBusyDropWitness ==
    /\ tx_cnt # 0
    /\ valid = 1
    /\ uart_t > 1
    /\ uart_t < (uart_n + 2) * uart_divider

\* The (n+2)-bit register with every bit 1.
UartAllOnes(n) == 2 ^ (n + 2) - 1

\* C22 (as claimed): in the reset state and in every state where the bit
\* counter is 0 the shift register holds all ones.
UartIdleAllOnes ==
    tx_cnt = 0 => tx_reg = UartAllOnes(uart_n)

\* C22 (amended): the shift register is 1 (bit 0 only) in the reset state;
\* whenever the bit counter is 0 bit 0, the line, is 1 and the register is
\* either 1 or all ones; every edge that brings the bit counter back to 0
\* leaves the register all ones, and while the bit counter stays 0 the
\* register keeps its value.
UartIdleRegister ==
    /\ (tx_cnt = 0 /\ tx_reg = 1)
    /\ [](tx_cnt = 0 => (TxO = 1 /\ tx_reg \in {1, UartAllOnes(uart_n)}))
    /\ [][ /\ (tx_cnt # 0 /\ tx_cnt' = 0) => tx_reg' = UartAllOnes(uart_n)
           /\ (tx_cnt = 0 /\ tx_cnt' = 0) => tx_reg' = tx_reg
         ]_vars

\* A frame carrying the byte 0 at the greatest width has ended: the bit
\* counter is 0 again and the register is all ones.
UartIdleRegisterWitness ==
    /\ tx_cnt = 0
    /\ uart_n = MaxN
    /\ uart_data = 0
    /\ tx_reg = UartAllOnes(uart_n)

\* =============================================================== RGMIIRx
\* rxdv = self.rxctl[0]
RxDvBit1(ctl) == Bit(ctl, 1)

RxDv(ctl) == Bit(ctl, 0)

\* Variant: the write enable asserted in every state.
WpEnAlways(fsm) == 1

\* m.d.comb: self.wp.en is 0 in IDLE and 1 in DATA.
WpEn(fsm) == IF fsm = "DATA" THEN 1 ELSE 0

\* m.d.sync += self.wp.addr.eq(n), self.wp.data.eq(self.rxd): the write
\* port's registers after the edge; the address is cut to the port's width.
RxWritePathAhead(n, d, bits) ==
    [addr |-> (n + 1) % Depth(bits), data |-> d]

RxWritePath(n, d, bits) ==
    [addr |-> n % Depth(bits), data |-> d]

\* FSM state IDLE: the registers after the edge.
RxIdleFromZero(n, dv, len, v) ==
    IF v = 1
    THEN [fsm |-> "DATA", n |-> 0, dv |-> 0, len |-> 0]
    ELSE [fsm |-> "IDLE", n |-> 0, dv |-> 0, len |-> 0]

RxIdleKeepDv(n, dv, len, v) ==
    IF v = 1
    THEN [fsm |-> "DATA", n |-> 1, dv |-> dv, len |-> 0]
    ELSE [fsm |-> "IDLE", n |-> 0, dv |-> dv, len |-> 0]

RxIdleNext(n, dv, len, v) ==
    IF v = 1
    THEN [fsm |-> "DATA", n |-> 1, dv |-> 0, len |-> 0]
    ELSE [fsm |-> "IDLE", n |-> 0, dv |-> 0, len |-> 0]

\* FSM state DATA: the registers after the edge.  The later assignment
\* n.eq(0) overrides n.eq(n + 1) when rxdv is low.
RxDataNext(n, dv, len, v) ==
    IF v = 0
    THEN [fsm |-> "IDLE", n |-> 0, dv |-> 1, len |-> n]
    ELSE [fsm |-> "DATA", n |-> (n + 1) % (2 ^ RxNWidth), dv |-> dv, len |-> len]

\* Observers of one clock edge of the receiver.
RxPresentedNext(fsm, seen, v, d) ==
    IF fsm = "IDLE"
    THEN (IF v = 1 THEN <<d>> ELSE << >>)
    ELSE (IF v = 1 THEN Append(seen, d) ELSE seen)

RxWritesNext(fsm, writes, en) ==
    (IF fsm = "IDLE" THEN 0 ELSE writes) + en

\* One clock edge of the rxc domain: the FSM registers from `nx`, the write
\* port registers, the memory write and the observers.
RxEdge(nx) ==
    LET wpath == RxWritePath(rx_n, rxd, AddrBits)
        seen  == RxPresentedNext(rx_fsm, rx_presented, Bit(rxctl, 0), rxd)
    IN  /\ rx_fsm' = nx.fsm
        /\ rx_n' = nx.n
        /\ rx_dv' = nx.dv
        /\ rx_len' = nx.len
        /\ wp_addr' = wpath.addr
        /\ wp_data' = wpath.data
        /\ rxmem' = MemWrite(rxmem, WpEn(rx_fsm), wp_addr, wp_data)
        /\ rx_presented' = seen
        /\ rx_writes' = RxWritesNext(rx_fsm, rx_writes, WpEn(rx_fsm))
        /\ rx_ever' = IF Bit(rxctl, 0) = 1 THEN 1 ELSE rx_ever

\* The inputs the environment may present in the next cycle: any byte, and
\* any control bits that do not make the run of rx-valid cycles longer
\* than `most`.
RxInputs(most) ==
    LET seen == RxPresentedNext(rx_fsm, rx_presented, Bit(rxctl, 0), rxd)
    IN  /\ rxd' \in ByteVals
        /\ rxctl' \in {c \in 0..3 : Bit(c, 0) = 1 => Len(seen) < most}

\* One clock edge of the receiver exercised on its own, and the next inputs.
RxClock(nx) ==
    /\ RxEdge(nx)
    /\ RxInputs(MaxFrame)

RxIdle ==
    /\ rx_fsm = "IDLE"
    /\ RxClock(RxIdleNext(rx_n, rx_dv, rx_len, RxDv(rxctl)))
    /\ UNCHANGED <<uartVars, txVars, m2pVars, topVars>>

RxData ==
    /\ rx_fsm = "DATA"
    /\ RxClock(RxDataNext(rx_n, rx_dv, rx_len, RxDv(rxctl)))
    /\ UNCHANGED <<uartVars, txVars, m2pVars, topVars>>

RxStep == RxIdle \/ RxData

RxInit ==
    /\ TopReset
    /\ UartReset
    /\ TxReset
    /\ M2PReset
    /\ rxd \in ByteVals
    /\ rxctl \in 0..3
    /\ RxRegsReset

SpecRx == RxInit /\ [][RxStep]_vars

\* ------------------------------------------------------- RGMIIRx claims
\* C2: in the frame-available cycle of a frame of m bytes, 1 <= m <= 2047,
\* the frame-length output is m and exactly m clock edges of the frame had
\* write-enable asserted.
RxCaptureLength ==
    (rx_dv = 1 /\ Len(rx_presented) \in 1..(2 ^ RxNWidth - 1)) =>
        /\ rx_len = Len(rx_presented)
        /\ rx_writes = Len(rx_presented)

\* A frame of the greatest length presented has just been reported.
RxCaptureLengthWitness ==
    /\ rx_dv = 1
    /\ Len(rx_presented) = MaxFrame
    /\ rx_len = MaxFrame

\* C3 (as amended): in the frame-available cycle of a frame b1..bm, m not
\* more than the buffer depth, the memory holds b_i at address i-1 for
\* every i in 1..m: the first byte is at address 0, the last at m-1.
RxCapturePlacement ==
    (rx_dv = 1 /\ Len(rx_presented) \in 1..Depth(AddrBits)) =>
        \A i \in 1..Len(rx_presented) : rxmem[i - 1] = rx_presented[i]

\* A frame that fills the buffer, with two different bytes, was reported.
RxCapturePlacementWitness ==
    /\ rx_dv = 1
    /\ Len(rx_presented) = Depth(AddrBits)
    /\ rx_presented[1] # rx_presented[2]

\* C3 (as claimed): in the frame-available cycle of a frame b1..bm whose
\* addresses 1..m exist, the memory holds b_i at address i.
RxCapturePlacementAtOne ==
    (rx_dv = 1 /\ Len(rx_presented) \in 1..(Depth(AddrBits) - 1)) =>
        \A i \in 1..Len(rx_presented) : rxmem[i] = rx_presented[i]

\* C7: frame-available is asserted in a cycle exactly when the cycle before
\* it was a capture cycle that sampled rx-valid low, and so never in two
\* consecutive cycles.
RxFrameAvailablePulse ==
    [][ /\ (rx_dv' = 1) <=> (rx_fsm = "DATA" /\ Bit(rxctl, 0) = 0)
        /\ rx_dv = 1 => rx_dv' = 0
      ]_vars

\* The frame-available cycle of a frame, with rx-valid still low.
RxFrameAvailablePulseWitness ==
    /\ rx_dv = 1
    /\ rx_fsm = "IDLE"
    /\ Bit(rxctl, 0) = 0
    /\ Len(rx_presented) >= 2

\* C8: as long as rx-valid has not been asserted in any cycle so far, the
\* receiver is in IDLE with its counter at 0, frame-available and
\* write-enable are deasserted, no clock edge has written the buffer and
\* the buffer holds its initial contents.
RxZeroLength ==
    (rx_ever = 0) =>
        /\ rx_fsm = "IDLE"
        /\ rx_n = 0
        /\ rx_dv = 0
        /\ rx_len = 0
        /\ WpEn(rx_fsm) = 0
        /\ rx_writes = 0
        /\ \A a \in DOMAIN rxmem : rxmem[a] = 0

\* Clock edges have sampled a nonzero byte from the bus with rx-valid low
\* (control bit 1 high, bit 0 low) and rx-valid has never been high.
RxZeroLengthWitness ==
    /\ rx_ever = 0
    /\ wp_data # 0
    /\ rxctl = 2

\* C18: the write enable is asserted exactly in the capture state DATA and
\* deasserted exactly in IDLE; in every cycle with the write enable asserted
\* the write address register holds the previous cycle's counter (the
\* counter minus 1 modulo 2^11, on the address width) and the write data
\* register holds the byte that was on rx-data in the previous cycle.
RxRegisteredWritePath ==
    /\ WpEn(rx_fsm) = 1 <=> rx_fsm = "DATA"
    /\ WpEn(rx_fsm) = 0 <=> rx_fsm = "IDLE"
    /\ WpEn(rx_fsm) = 1 =>
           /\ wp_addr = ((rx_n - 1) % (2 ^ RxNWidth)) % Depth(AddrBits)
           /\ Len(rx_presented) >= 1
           /\ wp_data = rx_presented[Len(rx_presented)]

\* The capture is in the cycle after the last byte of a frame of MaxFrame
\* bytes, the write registers holding that byte and its address.
RxRegisteredWritePathWitness ==
    /\ rx_fsm = "DATA"
    /\ rx_n = MaxFrame
    /\ Len(rx_presented) = MaxFrame
    /\ wp_data = MaxByte
    /\ wp_addr = (MaxFrame - 1) % Depth(AddrBits)

\* =============================================================== RGMIITx
\* m.d.comb: self.txd = self.rp.data
TxD == tx_rp_data

\* m.d.comb: txerr = 0, txctl[0] = txen, txctl[1] = txen ^ txerr
TxErr == 0

TxCtl == txen + 2 * ((txen + TxErr) % 2)

\* m.d.comb: self.ready is 1 in IDLE and 0 in DATA.
TxReady(fsm) == IF fsm = "IDLE" THEN 1 ELSE 0

\* FSM state IDLE: the registers after the edge.
TxIdleStartAtZero(nin, dv) ==
    IF dv = 1
    THEN [fsm |-> "DATA", n |-> nin, txen |-> 1, addr |-> 0]
    ELSE [fsm |-> "IDLE", n |-> nin, txen |-> 0, addr |-> 0]

TxIdleNext(nin, dv) ==
    IF dv = 1
    THEN [fsm |-> "DATA", n |-> nin, txen |-> 1, addr |-> 1]
    ELSE [fsm |-> "IDLE", n |-> nin, txen |-> 0, addr |-> 0]

\* FSM state DATA: the registers after the edge.  n - 1 is an unsigned
\* value one bit wider than n, so it is 2^(TxNWidth+1) - 1 when n is 0; the
\* address is a register of `bits` bits.
TxDataExitAtN(n, addr, bits) ==
    [fsm  |-> IF addr = n THEN "IDLE" ELSE "DATA",
     n    |-> n,
     txen |-> 1,
     addr |-> (addr + 1) % Depth(bits)]

TxDataNext(n, addr, bits) ==
    [fsm  |-> IF addr = (n - 1) % (2 ^ (TxNWidth + 1)) THEN "IDLE" ELSE "DATA",
     n    |-> n,
     txen |-> 1,
     addr |-> (addr + 1) % Depth(bits)]

\* Longest record of driven bytes the observer keeps.
TxSeenCap == Depth(AddrBits) + 1

\* Observer: the record of driven bytes is restarted by an accepted trigger
\* and dropped after the first IDLE cycle with tx-enable low; the byte of
\* the next cycle is appended when tx-enable is high in it.
TxSeenNext(fsm, dv, en, seen, en2, d2) ==
    LET base == IF fsm = "IDLE" /\ (dv = 1 \/ en = 0) THEN << >> ELSE seen
    IN  IF en2 = 1 /\ Len(base) < TxSeenCap THEN Append(base, d2) ELSE base

\* Variant: the length register is loaded from the length input in every
\* cycle with start asserted, not only in IDLE.
TxEdgeRelatch(nx) ==
    LET data2  == MemRead(txmem, tx_rp_addr)
        accept == tx_fsm = "IDLE" /\ tx_dv = 1
        drop   == tx_fsm = "IDLE" /\ tx_dv = 0 /\ txen = 0
    IN  /\ tx_fsm' = nx.fsm
        /\ tx_n' = IF tx_dv = 1 THEN tx_nin ELSE nx.n
        /\ txen' = nx.txen
        /\ tx_rp_addr' = nx.addr
        /\ tx_rp_data' = data2
        /\ tx_seen' = TxSeenNext(tx_fsm, tx_dv, txen, tx_seen, nx.txen, data2)
        /\ tx_req' = IF accept THEN tx_nin ELSE IF drop THEN 0 ELSE tx_req
        /\ tx_clean' = IF accept THEN tx_quiet ELSE IF drop THEN 0 ELSE tx_clean
        /\ tx_quiet' = IF tx_fsm = "IDLE" /\ tx_dv = 0 THEN 1 ELSE 0
        /\ UNCHANGED txmem

\* One clock edge of the transmitter's domain: the FSM registers from
\* `nx`, the read port's data register and the observers.
TxEdge(nx) ==
    LET data2  == MemRead(txmem, tx_rp_addr)
        accept == tx_fsm = "IDLE" /\ tx_dv = 1
        drop   == tx_fsm = "IDLE" /\ tx_dv = 0 /\ txen = 0
    IN  /\ tx_fsm' = nx.fsm
        /\ tx_n' = nx.n
        /\ txen' = nx.txen
        /\ tx_rp_addr' = nx.addr
        /\ tx_rp_data' = data2
        /\ tx_seen' = TxSeenNext(tx_fsm, tx_dv, txen, tx_seen, nx.txen, data2)
        /\ tx_req' = IF accept THEN tx_nin ELSE IF drop THEN 0 ELSE tx_req
        /\ tx_clean' = IF accept THEN tx_quiet ELSE IF drop THEN 0 ELSE tx_clean
        /\ tx_quiet' = IF tx_fsm = "IDLE" /\ tx_dv = 0 THEN 1 ELSE 0
        /\ UNCHANGED txmem

\* One clock edge of the transmitter exercised on its own, and the next
\* inputs.
TxClock(nx) ==
    /\ TxEdge(nx)
    /\ tx_dv' \in Bit01
    /\ tx_nin' \in 0..MaxLen

TxIdle ==
    /\ tx_fsm = "IDLE"
    /\ TxClock(TxIdleNext(tx_nin, tx_dv))
    /\ UNCHANGED <<uartVars, rxVars, m2pVars, topVars>>

TxData ==
    /\ tx_fsm = "DATA"
    /\ TxClock(TxDataNext(tx_n, tx_rp_addr, AddrBits))
    /\ UNCHANGED <<uartVars, rxVars, m2pVars, topVars>>

TxStep == TxIdle \/ TxData

\* The replay memory is preloaded (nm.Memory(..., init=...)).
TxInit ==
    /\ TopReset
    /\ UartReset
    /\ RxReset
    /\ M2PReset
    /\ tx_dv \in Bit01
    /\ tx_nin \in 0..MaxLen
    /\ txmem \in {MemInit(p, AddrBits) : p \in Payloads}
    /\ TxRegsReset

SpecTx == TxInit /\ [][TxStep]_vars

\* ------------------------------------------------------- RGMIITx claims
\* The first n words of a memory, as a sequence.
FirstBytes(mem, n) == [i \in 1..n |-> mem[i - 1]]

\* A replay of a length n, 2 <= n <= depth, whose trigger was accepted
\* after an IDLE cycle with start low.
TxCleanReplay == tx_clean = 1 /\ tx_req \in 2..Depth(AddrBits)

\* C4: in such a replay the bytes seen on tx-data under tx-enable are
\* always a prefix of the first n bytes of the buffer, and once tx-enable
\* has gone low again they are exactly the first n bytes, no more.
TxReplayFidelity ==
    TxCleanReplay =>
        /\ Len(tx_seen) <= tx_req
        /\ tx_seen = FirstBytes(txmem, Len(tx_seen))
        /\ (tx_fsm = "IDLE" /\ txen = 0) => Len(tx_seen) = tx_req

\* A replay of the whole buffer has ended, the buffer's words not all equal.
TxReplayFidelityWitness ==
    /\ TxCleanReplay
    /\ tx_fsm = "IDLE"
    /\ txen = 0
    /\ tx_req = Depth(AddrBits)
    /\ Len(tx_seen) = Depth(AddrBits)
    /\ txmem[0] # txmem[1]
    /\ txmem[Depth(AddrBits) - 1] # txmem[0]

\* C10 (as amended): in such a replay the k-th byte driven under tx-enable
\* is the word at address k-1, for k up to n: the bytes are those at
\* addresses 0..n-1, the read port's data running one cycle behind the
\* address register that starts at 1.
TxStartAddress ==
    (TxCleanReplay /\ txen = 1) =>
        /\ Len(tx_seen) \in 1..tx_req
        /\ TxD = txmem[Len(tx_seen) - 1]
        /\ tx_rp_addr = Len(tx_seen) % Depth(AddrBits)

\* The last byte of a replay is being driven and differs from the word at
\* the next address (the replay is shorter than the buffer).
TxStartAddressWitness ==
    /\ TxCleanReplay
    /\ txen = 1
    /\ Len(tx_seen) = tx_req
    /\ tx_req < Depth(AddrBits)
    /\ txmem[tx_req - 1] # txmem[tx_req]

\* C10 (as claimed): the k-th byte driven under tx-enable in such a replay
\* is the word at address k (the bytes are those at addresses 1..n); stated
\* for the replays whose addresses 1..n exist.
TxStartAddressAtOne ==
    (TxCleanReplay /\ txen = 1 /\ tx_req < Depth(AddrBits)) =>
        TxD = txmem[Len(tx_seen)]

\* C11 (as claimed): after a trigger accepted from IDLE with frame length 0
\* or 1 the DATA state lasts a single cycle (the transmitter is never in a
\* second DATA cycle of such a replay) and the read address does not pass
\* the first DATA cycle's address 1.
TxShortFrame ==
    (tx_fsm = "DATA" /\ tx_req \in {0, 1}) =>
        /\ Len(tx_seen) <= 1
        /\ tx_rp_addr <= 1

\* The transmitter under continued clocking: its clock never stops.
SpecTxFair == SpecTx /\ WF_vars(TxStep)

\* C12 (as claimed): under continued clocking every replay leaves DATA and
\* returns to IDLE, where ready is asserted.
TxRunsToCompletion == (tx_fsm = "DATA") ~> (tx_fsm = "IDLE" /\ TxReady(tx_fsm) = 1)

\* Supporting lemma for C12: the replays whose latched length n has n - 1
\* among the read port's addresses (1 <= n <= depth) do return to IDLE.
TxRunsToCompletionInRange ==
    (tx_fsm = "DATA" /\ tx_n \in 1..Depth(AddrBits)) ~> (tx_fsm = "IDLE")

\* C20 (as claimed): after every accepted trigger with 2 <= n <= depth,
\* the one accepted in the first IDLE cycle after a frame included, the
\* bytes driven under tx-enable are the words at addresses 0, 1, ... in
\* order, as in a replay started after an idle cycle.
TxAlignmentEveryTrigger ==
    tx_req \in 2..Depth(AddrBits) =>
        /\ Len(tx_seen) <= tx_req
        /\ tx_seen = FirstBytes(txmem, Len(tx_seen))

\* ========================================================== Mem2Parallel
\* Width of nm.Signal(range(stop)), stop >= 1: the bits needed for stop-1.
RECURSIVE BitsFor(_)
BitsFor(x) == IF x <= 1 THEN 1 ELSE 1 + BitsFor(x \div 2)

\* Width of ctr = nm.Signal(range(self.div)).
CtrWidth(div) == BitsFor(div - 1)

\* Variant: the read address held at 1 in IDLE.
M2PIdleFromOne(nin, dv, ctr, clk) ==
    [fsm |-> IF dv = 1 THEN "DATA" ELSE "IDLE",
     n |-> nin, addr |-> 1, o |-> 0, ctr |-> ctr, clk |-> clk]

\* FSM state IDLE: the registers after the edge (ctr and clk keep their
\* values).
M2PIdleNext(nin, dv, ctr, clk) ==
    [fsm |-> IF dv = 1 THEN "DATA" ELSE "IDLE",
     n |-> nin, addr |-> 0, o |-> 0, ctr |-> ctr, clk |-> clk]

\* FSM state DATA: the registers after the edge.
M2PDataSlow(n, addr, data, div, bits) ==
    [fsm |-> "WAIT", n |-> n, addr |-> (addr + 1) % Depth(bits), o |-> data,
     ctr |-> div - 1, clk |-> 0]

M2PDataNext(n, addr, data, div, bits) ==
    [fsm |-> "WAIT", n |-> n, addr |-> (addr + 1) % Depth(bits), o |-> data,
     ctr |-> div - 2, clk |-> 0]

\* FSM state WAIT: the registers after the edge.
M2PWaitNext(n, addr, o, ctr, div) ==
    [fsm  |-> IF ctr = 0
              THEN (IF addr = n THEN "IDLE" ELSE "DATA")
              ELSE "WAIT",
     n |-> n, addr |-> addr, o |-> o,
     ctr |-> (ctr - 1) % (2 ^ CtrWidth(div)), clk |-> 1]

\* The frame lengths presented on self.n, a signal as wide as the read
\* port's address.
M2PLengths == {n \in 0..MaxDump : n < Depth(AddrBits)}

\* One clock edge of the dumper: the registers from `nx`, the read port's
\* data register and the observers.
M2PEdge(nx) ==
    LET accept == m2p_fsm = "IDLE" /\ m2p_dv = 1
        drop   == m2p_fsm = "IDLE" /\ m2p_dv = 0
        rise   == m2p_clk = 0 /\ nx.clk = 1
        sat(c) == IF c > m2p_div THEN m2p_div + 1 ELSE c
    IN  /\ m2p_fsm' = nx.fsm
        /\ m2p_n' = nx.n
        /\ m2p_rp_addr' = nx.addr
        /\ m2p_o' = nx.o
        /\ m2p_ctr' = nx.ctr
        /\ m2p_clk' = nx.clk
        /\ m2p_rp_data' = MemRead(rxmem, m2p_rp_addr)
        /\ m2p_req' = IF accept THEN m2p_nin ELSE IF drop THEN 0 ELSE m2p_req
        /\ m2p_edges' = IF accept \/ drop THEN 0
                        ELSE IF rise THEN m2p_edges + 1 ELSE m2p_edges
        /\ m2p_since' = IF rise THEN 0 ELSE sat(m2p_since + 1)
        /\ m2p_gap' = IF rise THEN sat(m2p_since + 1) ELSE m2p_gap
        /\ m2p_clean' = IF accept THEN (IF m2p_rp_addr = 0 THEN 1 ELSE 0)
                        ELSE IF drop THEN 0 ELSE m2p_clean
        /\ UNCHANGED m2p_div

\* One clock edge of the dumper exercised on its own, and the next inputs.
\* The memory is not written.
M2PClock(nx) ==
    /\ M2PEdge(nx)
    /\ m2p_dv' \in Bit01
    /\ m2p_nin' \in M2PLengths

M2PIdle ==
    /\ m2p_fsm = "IDLE"
    /\ M2PClock(M2PIdleNext(m2p_nin, m2p_dv, m2p_ctr, m2p_clk))
    /\ UNCHANGED <<uartVars, rxVars, txVars, topVars>>

M2PData ==
    /\ m2p_fsm = "DATA"
    /\ M2PClock(M2PDataNext(m2p_n, m2p_rp_addr, m2p_rp_data, m2p_div, AddrBits))
    /\ UNCHANGED <<uartVars, rxVars, txVars, topVars>>

M2PWait ==
    /\ m2p_fsm = "WAIT"
    /\ M2PClock(M2PWaitNext(m2p_n, m2p_rp_addr, m2p_o, m2p_ctr, m2p_div))
    /\ UNCHANGED <<uartVars, rxVars, txVars, topVars>>

M2PStep == M2PIdle \/ M2PData \/ M2PWait

\* The dumper on a preloaded memory that nothing writes
\* (test_mem_to_parallel), for every divider from 2 to MaxDiv.  The read
\* port is mem.read_port(), a transparent port: its data output is the
\* word at the latched address, so before the first edge it shows the word
\* at address 0, and after each edge the word at the address the port had
\* before the edge, as M2PEdge has it for a memory that is not written.
M2PInit ==
    /\ TopReset
    /\ UartReset
    /\ TxReset
    /\ rxd = 0
    /\ rxctl = 0
    /\ RxRegsOff
    /\ rxmem \in {MemInit(p, AddrBits) : p \in Payloads}
    /\ m2p_div \in 2..MaxDiv
    /\ m2p_dv \in Bit01
    /\ m2p_nin \in M2PLengths
    /\ M2PRegsOff
    /\ m2p_rp_data = MemRead(rxmem, m2p_rp_addr)

SpecM2P == M2PInit /\ [][M2PStep]_vars

\* -------------------------------------------------- Mem2Parallel claims
\* C5: in a dump of length n >= 1 the strobe has risen at most n times,
\* exactly n times when the dumper is back in IDLE, and every rising edge
\* after the first of the dump comes exactly d cycles after the one before.
M2PPacing ==
    m2p_req >= 1 =>
        /\ m2p_edges <= m2p_req
        /\ m2p_fsm = "IDLE" => m2p_edges = m2p_req
        /\ (m2p_since = 0 /\ m2p_edges >= 2) => m2p_gap = m2p_div

\* A dump of the greatest length at the greatest divider has just ended.
M2PPacingWitness ==
    /\ m2p_fsm = "IDLE"
    /\ m2p_req = MaxDump
    /\ m2p_edges = m2p_req
    /\ m2p_div = MaxDiv
    /\ m2p_gap = m2p_div

\* C6 (as claimed): in a dump of length n >= 1 on a memory that is not
\* written, in the cycle in which the strobe has risen for the i-th time
\* the output word register holds the word at address i-1.
M2PWordAlignment ==
    (m2p_req >= 1 /\ m2p_since = 0 /\ m2p_edges >= 1) =>
        m2p_o = rxmem[m2p_edges - 1]

\* Supporting lemma for C6: the alignment holds in every dump whose trigger
\* is accepted with the read address at 0 (at reset, or after an IDLE
\* cycle); it fails only for a trigger accepted in the first IDLE cycle
\* after a dump, when the read address is still the previous length.
M2PWordAlignmentFromZero ==
    (m2p_clean = 1 /\ m2p_req >= 1 /\ m2p_since = 0 /\ m2p_edges >= 1) =>
        m2p_o = rxmem[m2p_edges - 1]

\* C19 (as claimed): a dump triggered with n = 0 raises the strobe 0 times
\* and never reaches WAIT, the state entered once DATA has latched a word
\* into the output register.
M2PZeroLength ==
    m2p_req = 0 => (m2p_edges = 0 /\ m2p_fsm # "WAIT")

\* ================================================= one machine at a time
\* The transmitter is the machine exercised: the dumper and the receiver
\* are in reset with their inputs low.
TxAlone == M2PReset /\ RxReset

\* The dumper is the machine exercised: the transmitter is in reset with
\* its inputs low.
M2PAlone == TxReset

AloneInit == TxInit \/ M2PInit

AloneStep ==
    \/ TxAlone /\ TxStep
    \/ M2PAlone /\ M2PStep

\* Either the transmitter or the dumper, each on its own memory and with
\* free inputs, the other held in reset.
SpecAlone == AloneInit /\ [][AloneStep]_vars

\* In DATA the transmitter's registers after the edge are those of the
\* length latched at the trigger and of the read address, whatever the
\* start and length inputs are.
TxOverlapIgnored ==
    tx_fsm = "DATA" =>
        /\ tx_n = tx_req
        /\ tx_n' = tx_n
        /\ tx_req' = tx_req
        /\ txen' = 1
        /\ tx_rp_addr' = (tx_rp_addr + 1) % Depth(AddrBits)
        /\ tx_rp_data' = txmem[tx_rp_addr]
        /\ tx_fsm' = TxDataNext(tx_req, tx_rp_addr, AddrBits).fsm

\* In DATA and WAIT the dumper's registers after the edge are those of the
\* length latched at the trigger and of its own registers, whatever the
\* start and length inputs are.
M2POverlapIgnored ==
    m2p_fsm \in {"DATA", "WAIT"} =>
        LET nx == IF m2p_fsm = "DATA"
                  THEN M2PDataNext(m2p_req, m2p_rp_addr, m2p_rp_data, m2p_div, AddrBits)
                  ELSE M2PWaitNext(m2p_req, m2p_rp_addr, m2p_o, m2p_ctr, m2p_div)
        IN  /\ m2p_n = m2p_req
            /\ m2p_n' = m2p_n
            /\ m2p_req' = m2p_req
            /\ m2p_fsm' = nx.fsm
            /\ m2p_rp_addr' = nx.addr
            /\ m2p_o' = nx.o
            /\ m2p_clk' = nx.clk
            /\ m2p_ctr' = nx.ctr
            /\ m2p_rp_data' = rxmem[m2p_rp_addr]

\* C13: while the transmitter is in DATA and while the dumper is in DATA
\* or WAIT, the start and length inputs of the cycle have no effect on the
\* latched length, the read address, the outputs or the cycle of the return
\* to IDLE: every clock edge taken in those states leaves the registers as
\* the length latched at the trigger determines them.
OverlapIgnored == [][TxOverlapIgnored /\ M2POverlapIgnored]_vars

\* The transmitter is in the second DATA cycle of a replay of three bytes
\* or more while start is asserted with a different length input.
OverlapIgnoredWitness ==
    /\ tx_fsm = "DATA"
    /\ tx_req >= 3
    /\ Len(tx_seen) = 2
    /\ tx_dv = 1
    /\ tx_nin # tx_req

\* The dumper is in WAIT in a dump of two words or more while start is
\* asserted with a different length input.
OverlapIgnoredWitnessM2P ==
    /\ m2p_fsm = "WAIT"
    /\ m2p_req >= 2
    /\ m2p_dv = 1
    /\ m2p_nin # m2p_req

\* ==================================================================== Top
\* Scaled stand-ins for txpacket: one packet of each length up to MaxInit,
\* its bytes counting up from 1.
TopPackets == {[i \in 1..n |-> i % (MaxByte + 1)] : n \in 0..MaxInit}

\* The packet of two bytes.
TopShortPackets == {p \in TopPackets : Len(p) = 2}

\* Variant: a free-running counter.
TopCtrFree(ctr, ready) == (ctr + 1) % (2 ^ TopCtrWidth)

\* with m.If(rgmii_tx.ready): ctr.eq(ctr + 1); with m.Else(): ctr.eq(0)
TopCtrNext(ctr, ready) ==
    IF ready = 1 THEN (ctr + 1) % (2 ^ TopCtrWidth) ELSE 0

\* Variant: the trigger asserted at counter value 1.
TopDvAtOne(ctr) == IF ctr = 1 THEN 1 ELSE 0

\* rgmii_tx.dv.eq(ctr == 16)
TopDv(ctr) == IF ctr = TopTrigger THEN 1 ELSE 0

\* Longest run of rx-valid cycles presented to Top's receiver: as in Top,
\* the frame lengths are below the depth of the capture memory.
TopMaxFrame ==
    IF MaxTopFrame < Depth(AddrBits) THEN MaxTopFrame ELSE Depth(AddrBits) - 1

\* m2p.n.eq(rgmii_rx.n), m2p.dv.eq(rgmii_rx.dv): the dumper's inputs are
\* the receiver's outputs (the length on the width of the read address).
TopWires(nx) ==
    /\ m2p_dv' = nx.dv
    /\ m2p_nin' = nx.len % Depth(AddrBits)

\* The receiver's registers after an rxc edge, by FSM state.
TopRxNext ==
    IF rx_fsm = "IDLE"
    THEN RxIdleNext(rx_n, rx_dv, rx_len, RxDv(rxctl))
    ELSE RxDataNext(rx_n, rx_dv, rx_len, RxDv(rxctl))

\* The transmitter's registers after an rxc edge, by FSM state.
TopTxNext ==
    IF tx_fsm = "IDLE"
    THEN TxIdleNext(tx_nin, tx_dv)
    ELSE TxDataNext(tx_n, tx_rp_addr, AddrBits)

\* The dumper's registers after a sync edge, by FSM state.
TopM2PNext ==
    CASE m2p_fsm = "IDLE" -> M2PIdleNext(m2p_nin, m2p_dv, m2p_ctr, m2p_clk)
      [] m2p_fsm = "DATA" -> M2PDataNext(m2p_n, m2p_rp_addr, m2p_rp_data, m2p_div, AddrBits)
      [] m2p_fsm = "WAIT" -> M2PWaitNext(m2p_n, m2p_rp_addr, m2p_o, m2p_ctr, m2p_div)

\* Greatest count of cycles the trigger observer keeps.
TopLastCap == Depth(AddrBits) + TopTrigger + 2

\* Observer: cycles since the last cycle with the trigger asserted.
TopLastNext(last, dv) ==
    IF dv = 1 THEN 1
    ELSE IF last = 0 THEN 0
    ELSE IF last < TopLastCap THEN last + 1 ELSE TopLastCap

\* Observer: consecutive cycles with the transmitter in IDLE.
TopIdleNext(fsm, idle) ==
    IF fsm # "IDLE" THEN 0
    ELSE IF idle <= TopTrigger THEN idle + 1 ELSE idle

\* Observer: accepted dump triggers of the pulse, from the receiver's edge
\* that raises it.
TopTakenAtRx(nx, taken) == IF nx.dv = 1 THEN 0 ELSE taken

\* Observer: an accepted dump trigger is counted, up to 2.
TopTakenAtM2P(fsm, dv, taken) ==
    IF fsm = "IDLE" /\ dv = 1 /\ taken < 2 THEN taken + 1 ELSE taken

\* Observer: set by the edge that ends a capture (DATA with rx-valid low)
\* when the dumper is in IDLE in that cycle, cleared by every other edge of
\* a cycle with rx-valid high or of a capture's end with the dumper busy.
TopOkNext(rfsm, v, mfsm, ok) ==
    IF rfsm = "DATA" /\ v = 0 THEN (IF mfsm = "IDLE" THEN 1 ELSE 0)
    ELSE IF v = 1 THEN 0 ELSE ok

\* Observer: the frame just captured, taken when the dumper accepts the
\* trigger (in the cycle of the frame-available pulse) and kept while
\* rx-valid has been low since the capture's end (`ok`).
TopFrameNext(mfsm, dv, presented, frame, ok) ==
    IF ok = 0 THEN << >>
    ELSE IF mfsm = "IDLE" /\ dv = 1 THEN presented ELSE frame

\* The bytes the PHY presents to Top: the least and the greatest.
TopBytes == {0, MaxByte}

\* The next byte and control bits from the PHY: a byte with rx-valid and no
\* error flagged (both control bits high) while the frame is shorter than
\* `most`, or an idle bus (all low); with most = 0 the link is silent.
TopInputs(most) ==
    LET seen == RxPresentedNext(rx_fsm, rx_presented, Bit(rxctl, 0), rxd)
    IN  \/ /\ Len(seen) < most
           /\ rxctl' = 3
           /\ rxd' \in TopBytes
        \/ /\ rxctl' = 0
           /\ rxd' = 0

\* One edge of the rxc clock alone.  It advances everything Top puts in the
\* rxc domain: the receiver and the capture memory's write port, the
\* transmitter and the replay memory's read port.  The dumper's inputs
\* follow the receiver's outputs; the trigger counter, and so the
\* transmitter's start input, hold.  The clocks no longer tick together:
\* the observers of common-clock runs go back to their reset values.
TopRxcEdge(most) ==
    /\ RxEdge(TopRxNext)
    /\ TopInputs(most)
    /\ TxEdge(TopTxNext)
    /\ TopWires(TopRxNext)
    /\ top_taken' = TopTakenAtRx(TopRxNext, top_taken)
    /\ top_lock' = 0
    /\ top_last' = 0
    /\ top_idle' = 0
    /\ top_ok' = 0
    /\ top_frame' = << >>
    /\ UNCHANGED <<m2pRegs, top_ctr, tx_dv, tx_nin, uartVars>>

\* One edge of the sync clock alone.  It advances everything Top puts in the
\* sync domain: the dumper and the capture memory's read port, and the
\* trigger counter, which samples the transmitter's ready output; the
\* transmitter's start input follows the counter.  The receiver's outputs,
\* and so the dumper's inputs, hold.  (The 22-bit counter of the same
\* domain drives nothing but the LED and is left out.)
TopSyncEdge ==
    LET ctr2 == TopCtrNext(top_ctr, TxReady(tx_fsm))
    IN  /\ M2PEdge(TopM2PNext)
        /\ top_ctr' = ctr2
        /\ tx_dv' = TopDv(ctr2)
        /\ top_taken' = TopTakenAtM2P(m2p_fsm, m2p_dv, top_taken)
        /\ top_lock' = 0
        /\ top_last' = 0
        /\ top_idle' = 0
        /\ top_ok' = 0
        /\ top_frame' = << >>
        /\ UNCHANGED <<m2p_dv, m2p_nin, rxVars, txRegs, uartVars>>

\* An edge of the rxc clock and an edge of the sync clock at the same
\* instant: every register of Top takes its next value from the values
\* before the edges.  The capture memory's read port is not transparent: it
\* fetches the word the memory held before the edge.
TopBothEdge(most) ==
    LET ctr2 == TopCtrNext(top_ctr, TxReady(tx_fsm))
    IN  /\ RxEdge(TopRxNext)
        /\ TopInputs(most)
        /\ TxEdge(TopTxNext)
        /\ M2PEdge(TopM2PNext)
        /\ TopWires(TopRxNext)
        /\ top_ctr' = ctr2
        /\ tx_dv' = TopDv(ctr2)
        /\ top_taken' = TopTakenAtRx(TopRxNext,
                            TopTakenAtM2P(m2p_fsm, m2p_dv, top_taken))
        /\ top_lock' = top_lock
        /\ top_last' = IF top_lock = 1 THEN TopLastNext(top_last, tx_dv) ELSE 0
        /\ top_idle' = IF top_lock = 1 THEN TopIdleNext(tx_fsm, top_idle) ELSE 0
        /\ top_ok' = IF top_lock = 1
                     THEN TopOkNext(rx_fsm, RxDv(rxctl), m2p_fsm, top_ok)
                     ELSE 0
        /\ top_frame' = TopFrameNext(m2p_fsm, m2p_dv, rx_presented, top_frame,
                                     top_ok')
        /\ UNCHANGED <<tx_nin, uartVars>>

\* Top after reset, with one of `packets` as txpacket: the replay memory
\* holds the packet and the transmitter's length input is its length; the
\* capture memory holds zeros; the dumper has divider 2 and its inputs are
\* the receiver's outputs; the transmitter's start input follows the
\* counter.  With most = 0 the link is silent.
TopInit(packets, most) ==
    /\ UartReset
    /\ TopReset
    /\ \/ most > 0 /\ rxctl = 3 /\ rxd \in TopBytes
       \/ rxctl = 0 /\ rxd = 0
    /\ RxRegsReset
    /\ m2p_div = TopDiv
    /\ m2p_dv = rx_dv
    /\ m2p_nin = rx_len
    /\ M2PRegsReset
    /\ tx_dv = TopDv(top_ctr)
    /\ \E p \in packets :
          /\ txmem = MemInit(p, AddrBits)
          /\ tx_nin = Len(p)
    /\ TxRegsReset

\* ============================================== Top: periodic transmit
\* Top with a silent link: the receiver and the dumper are clocked and
\* stay in IDLE.  The two clocks are independent: an edge of the rxc clock,
\* of the sync clock, or of both may come next.
TopTxRxc == TopRxcEdge(0)

TopTxSync == TopSyncEdge

TopTxBoth == TopBothEdge(0)

TopTxStep == TopTxRxc \/ TopTxSync \/ TopTxBoth

TopTxInit == TopInit(TopPackets, 0)

\* Top's transmit side; the clocks never both stop.
SpecTopTx == TopTxInit /\ [][TopTxStep]_vars /\ WF_vars(TopTxStep)

\* C14: with the counter and the transmitter advanced on the same clock
\* (every edge so far an edge of both clocks) and a constant frame length
\* n >= 2, the start trigger is asserted again and again for as long as the
\* clocks stay together, and every trigger after the first comes the same
\* number of cycles, n + 16, after the trigger before it.
TopPeriodicReplay ==
    /\ []((tx_nin >= 2 /\ top_lock = 1) => <>(tx_dv = 1 \/ top_lock = 0))
    /\ []((tx_nin >= 2 /\ top_lock = 1 /\ tx_dv = 1 /\ top_last > 0) =>
             top_last = tx_nin + TopTrigger)

\* On a common clock the trigger is asserted for the second time or later,
\* for the greatest frame length, one period after the trigger before it.
TopPeriodicReplayWitness ==
    /\ top_lock = 1
    /\ tx_nin = MaxInit
    /\ tx_dv = 1
    /\ tx_fsm = "IDLE"
    /\ top_last = tx_nin + TopTrigger

\* C21: the start trigger is asserted exactly when the counter is 16, and
\* with the counter and the transmitter advanced on the same clock, in
\* every cycle in which it is asserted the transmitter is in IDLE with
\* ready asserted, tx-enable is deasserted, the read address is 0 and the
\* transmitter was in IDLE in each of the 16 cycles before; the trigger is
\* never asserted in DATA.
TopTriggerDiscipline ==
    /\ tx_dv = 1 <=> top_ctr = TopTrigger
    /\ (top_lock = 1 /\ tx_dv = 1) =>
          /\ tx_fsm = "IDLE"
          /\ TxReady(tx_fsm) = 1
          /\ txen = 0
          /\ tx_rp_addr = 0
          /\ top_idle >= TopTrigger
    /\ (top_lock = 1 /\ tx_fsm = "DATA") => tx_dv = 0

\* On a common clock the trigger is asserted after a replay of at least two
\* bytes has ended.
TopTriggerDisciplineWitness ==
    /\ top_lock = 1
    /\ tx_dv = 1
    /\ top_ctr = TopTrigger
    /\ top_last > 0
    /\ tx_n >= 2
    /\ tx_fsm = "IDLE"

\* ================================================= Top: receive and dump
\* Top with frames arriving on the link and the two-byte packet to replay.
\* An edge of the rxc clock, of the sync clock, or of both.
TopRecvRxc == TopRxcEdge(TopMaxFrame)

TopRecvSync == TopSyncEdge

TopRecvBoth == TopBothEdge(TopMaxFrame)

TopRecvStep == TopRecvRxc \/ TopRecvSync \/ TopRecvBoth

TopRecvInit == TopInit(TopShortPackets, TopMaxFrame)

SpecTopRecv == TopRecvInit /\ [][TopRecvStep]_vars

\* C15 (as claimed): every frame-available pulse makes the dumper leave
\* IDLE: by the receiver's edge that ends the pulse the dumper has accepted
\* a trigger during it (an accepted trigger latches the length input, which
\* is the length reported with the pulse).
TopPulseDumped ==
    [][(rx_dv = 1 /\ rx_dv' = 0) => top_taken' >= 1]_vars

\* C16 (as claimed): the dumper is never in DATA or WAIT while the receiver
\* is in its capture state DATA, where the write enable is asserted.
TopCaptureDumpExclusion ==
    ~(m2p_fsm \in {"DATA", "WAIT"} /\ rx_fsm = "DATA" /\ WpEn(rx_fsm) = 1)

\* ================================== Top: receive and dump on one clock
\* The runs of SpecTopRecv in which the two clocks tick together: every
\* step is an edge of both.
TopSyncStep == TopBothEdge(TopMaxFrame)

SpecTopSync == TopRecvInit /\ [][TopSyncStep]_vars

\* C17: on a common clock (every edge so far an edge of both clocks), when
\* a frame b1..bm (m >= 1) ends its capture in a cycle in which the dumper
\* is in IDLE and rx-valid stays low until the dump triggered by its pulse
\* ends, the output word in the cycle of the dump's i-th strobe rising edge
\* is bi, and the dump ends after exactly m rising edges.
TopDumpFidelity ==
    (top_lock = 1 /\ top_ok = 1 /\ m2p_req >= 1) =>
        /\ m2p_req = Len(top_frame)
        /\ m2p_edges <= Len(top_frame)
        /\ (m2p_since = 0 /\ m2p_edges >= 1) => m2p_o = top_frame[m2p_edges]
        /\ m2p_fsm = "IDLE" => m2p_edges = Len(top_frame)

\* On a common clock the dump of a frame of the greatest length, with
\* distinct first and last bytes, has just ended with the last byte on the
\* output.
TopDumpFidelityWitness ==
    /\ top_lock = 1
    /\ top_ok = 1
    /\ m2p_fsm = "IDLE"
    /\ m2p_req = TopMaxFrame
    /\ m2p_edges = TopMaxFrame
    /\ Len(top_frame) = TopMaxFrame
    /\ top_frame[1] = 0
    /\ top_frame[TopMaxFrame] = MaxByte
    /\ m2p_o = MaxByte

====
